---- MODULE Spec2Model ----
(***************************************************************************)
(* A model of main.py: the contact directory (Field / Phone / Birthday /   *)
(* Record / AddressBook), the upcoming-birthday query and the command      *)
(* loop with its error-translation wrapper.                                *)
(*                                                                         *)
(* Texts (Python str) are sequences of one-character strings.  A character *)
(* outside ASCII is written as a token: "sup2" is U+00B2 SUPERSCRIPT TWO,  *)
(* "ar3" is U+0663 ARABIC-INDIC DIGIT THREE.                               *)
(***************************************************************************)
EXTENDS Integers, Sequences, FiniteSets, TLC

VARIABLES data, pc, call, result

vars == <<data, pc, call, result>>

(***************************************************************************)
(* Bounds of the model.                                                    *)
(***************************************************************************)
\* most phones the whole directory holds before add_phone is no longer tried
MaxPhones == 2
\* longest text handed to the Phone constructor
MaxTextLen == 11
\* number of years today's date ranges over, starting at FirstYear
NumYears == 2

(***************************************************************************)
(* Characters and texts.                                                   *)
(***************************************************************************)
AsciiDigits == {"0", "1", "2", "3", "4", "5", "6", "7", "8", "9"}

\* characters for which str.isdigit() is true although they are not 0-9
UnicodeDigits == {"sup2", "ar3"}

\* str.isdigit(): every character is a digit and there is at least one
isdigit(value) ==
    /\ Len(value) > 0
    /\ \A i \in 1..Len(value) : value[i] \in AsciiDigits \cup UnicodeDigits

\* a value returned, or an exception raised with its message
Return(v) == [exc |-> "none", msg |-> [text |-> "", arg |-> <<>>], value |-> v]

Raise(e, text, a) == [exc |-> e, msg |-> [text |-> text, arg |-> a], value |-> <<>>]

PhoneLen == 10

PhoneErr == "Phone number must be a 10-digit string of numbers."

\* Phone.__init__: the stored value, or ValueError
Phone(value) ==
    IF ~(isdigit(value) /\ Len(value) = PhoneLen)
    THEN Raise("ValueError", PhoneErr, <<>>)
    ELSE Return(value)

(***************************************************************************)
(* Calendar dates (datetime.date): records [year, month, day].             *)
(***************************************************************************)
is_leap(y) == y % 4 = 0 /\ (y % 100 # 0 \/ y % 400 = 0)

days_in_month(y, m) ==
    IF m = 2 THEN (IF is_leap(y) THEN 29 ELSE 28)
    ELSE IF m \in {4, 6, 9, 11} THEN 30 ELSE 31

\* what the date constructor accepts (MINYEAR = 1, MAXYEAR = 9999)
ValidDate(y, m, d) ==
    /\ y \in 1..9999
    /\ m \in 1..12
    /\ d \in 1..days_in_month(y, m)

days_before_year(y) ==
    (y - 1) * 365 + ((y - 1) \div 4) - ((y - 1) \div 100) + ((y - 1) \div 400)

RECURSIVE days_before_month(_, _)
days_before_month(y, m) ==
    IF m = 1 THEN 0 ELSE days_before_month(y, m - 1) + days_in_month(y, m - 1)

toordinal(dt) ==
    days_before_year(dt.year) + days_before_month(dt.year, dt.month) + dt.day

\* date.weekday(): Monday is 0, Sunday is 6
weekday(dt) == (toordinal(dt) + 6) % 7

NextDay(dt) ==
    IF dt.day < days_in_month(dt.year, dt.month)
    THEN [dt EXCEPT !.day = dt.day + 1]
    ELSE IF dt.month < 12
    THEN [year |-> dt.year, month |-> dt.month + 1, day |-> 1]
    ELSE [year |-> dt.year + 1, month |-> 1, day |-> 1]

\* date + timedelta(days=n), n >= 0
RECURSIVE AddDays(_, _)
AddDays(dt, n) == IF n = 0 THEN dt ELSE AddDays(NextDay(dt), n - 1)

\* (a - b).days
DaysBetween(a, b) == toordinal(a) - toordinal(b)

\* date.replace(year=y): ValueError when the day does not exist in year y
replace_year(dt, y) ==
    IF ValidDate(y, dt.month, dt.day)
    THEN Return([dt EXCEPT !.year = y])
    ELSE Raise("ValueError", "day is out of range for month", <<>>)

(***************************************************************************)
(* Parsing and formatting dates with the pattern %d.%m.%Y.                 *)
(***************************************************************************)
\* the characters the pattern \d matches: the decimal digits of any script
\* ("ar3" is one, "sup2" is not)
ReDigits == AsciiDigits \cup {"ar3"}

\* int() of one decimal digit
DigitVal(c) ==
    CASE c = "0" -> 0 [] c = "1" -> 1 [] c = "2" -> 2 [] c = "3" -> 3
      [] c = "4" -> 4 [] c = "5" -> 5 [] c = "6" -> 6 [] c = "7" -> 7
      [] c = "8" -> 8 [] c = "9" -> 9 [] c = "ar3" -> 3

DigitChar(n) ==
    CASE n = 0 -> "0" [] n = 1 -> "1" [] n = 2 -> "2" [] n = 3 -> "3"
      [] n = 4 -> "4" [] n = 5 -> "5" [] n = 6 -> "6" [] n = 7 -> "7"
      [] n = 8 -> "8" [] n = 9 -> "9"

RECURSIVE IntOf(_)
IntOf(f) ==
    IF Len(f) = 0 THEN 0
    ELSE IntOf(SubSeq(f, 1, Len(f) - 1)) * 10 + DigitVal(f[Len(f)])

\* the fields of a text between the "." characters
RECURSIVE Fields(_)
Fields(text) ==
    IF \A i \in 1..Len(text) : text[i] # "."
    THEN <<text>>
    ELSE LET i == CHOOSE k \in 1..Len(text) :
                      text[k] = "." /\ \A j \in 1..(k - 1) : text[j] # "."
         IN  <<SubSeq(text, 1, i - 1)>> \o Fields(SubSeq(text, i + 1, Len(text)))

NonZero == AsciiDigits \ {"0"}

\* %d: 3[0-1]|[1-2]\d|0[1-9]|[1-9]| [1-9]
DayField(f) ==
    \/ Len(f) = 2 /\ f[1] = "3" /\ f[2] \in {"0", "1"}
    \/ Len(f) = 2 /\ f[1] \in {"1", "2"} /\ f[2] \in ReDigits
    \/ Len(f) = 2 /\ f[1] = "0" /\ f[2] \in NonZero
    \/ Len(f) = 1 /\ f[1] \in NonZero
    \/ Len(f) = 2 /\ f[1] = " " /\ f[2] \in NonZero

\* %m: 1[0-2]|0[1-9]|[1-9]
MonthField(f) ==
    \/ Len(f) = 2 /\ f[1] = "1" /\ f[2] \in {"0", "1", "2"}
    \/ Len(f) = 2 /\ f[1] = "0" /\ f[2] \in NonZero
    \/ Len(f) = 1 /\ f[1] \in NonZero

\* %Y: \d\d\d\d
YearField(f) == Len(f) = 4 /\ \A i \in 1..4 : f[i] \in ReDigits

Strip(f) == IF Len(f) > 0 /\ f[1] = " " THEN Tail(f) ELSE f

\* datetime.strptime(value, "%d.%m.%Y").date()
strptime(value) ==
    LET fs == Fields(value) IN
    IF Len(fs) = 3 /\ DayField(fs[1]) /\ MonthField(fs[2]) /\ YearField(fs[3])
    THEN LET d == IntOf(Strip(fs[1]))
             m == IntOf(fs[2])
             y == IntOf(fs[3])
         IN  IF ValidDate(y, m, d)
             THEN Return([year |-> y, month |-> m, day |-> d])
             ELSE Raise("ValueError", "day is out of range for month", <<>>)
    ELSE Raise("ValueError", "time data does not match format", value)

Pad2(n) == <<DigitChar(n \div 10), DigitChar(n % 10)>>

\* date.strftime("%d.%m.%Y"), for the four-digit years of the model
strftime(dt) ==
    Pad2(dt.day) \o <<".">> \o Pad2(dt.month) \o <<".">>
        \o Pad2(dt.year \div 100) \o Pad2(dt.year % 100)

DateErr == "Invalid date format. Use DD.MM.YYYY"

\* Birthday.__init__: the parsed date, or ValueError
Birthday(value) ==
    LET r == strptime(value) IN
    IF r.exc = "ValueError" THEN Raise("ValueError", DateErr, <<>>) ELSE r

(***************************************************************************)
(* Record: [name, phones, birthday]; birthday is NoBirthday or a date.     *)
(***************************************************************************)
NoBirthday == [year |-> 0, month |-> 0, day |-> 0]

\* Record.__init__
Record(name) == [name |-> name, phones |-> <<>>, birthday |-> NoBirthday]

\* Record.find_phone: index of the first phone whose value equals the text,
\* 0 for None
find_phone(self, phone_number) ==
    IF \E i \in 1..Len(self.phones) : self.phones[i] = phone_number
    THEN CHOOSE i \in 1..Len(self.phones) :
             /\ self.phones[i] = phone_number
             /\ \A j \in 1..(i - 1) : self.phones[j] # phone_number
    ELSE 0

\* what a method leaves behind: the record afterwards and how the call ended
Done(self, out) == [self |-> self, out |-> out]

None == <<>>

\* Record.add_phone
add_phone(self, phone_number) ==
    LET p == Phone(phone_number) IN
    IF p.exc # "none" THEN Done(self, p)
    ELSE Done([self EXCEPT !.phones = Append(self.phones, p.value)], Return(None))

\* Record.add_birthday with a text argument
add_birthday(self, birthday) ==
    LET b == Birthday(birthday) IN
    IF b.exc # "none" THEN Done(self, b)
    ELSE Done([self EXCEPT !.birthday = b.value], Return(None))

NotFoundErr == "Phone number {} not found."

RemoveAt(s, i) == SubSeq(s, 1, i - 1) \o SubSeq(s, i + 1, Len(s))

\* Record.remove_phone
remove_phone(self, phone_number) ==
    LET phone_to_remove == find_phone(self, phone_number) IN
    IF phone_to_remove # 0
    THEN Done([self EXCEPT !.phones = RemoveAt(self.phones, phone_to_remove)],
              Return(None))
    ELSE Done(self, Raise("ValueError", NotFoundErr, phone_number))

\* edit_phone rewriting every phone equal to the old one
edit_phone_all(self, old_phone_number, new_phone_number) ==
    LET p == Phone(new_phone_number) IN
    IF find_phone(self, old_phone_number) = 0
    THEN Done(self, Raise("ValueError", NotFoundErr, old_phone_number))
    ELSE IF p.exc # "none" THEN Done(self, p)
    ELSE Done([self EXCEPT !.phones =
                   [i \in 1..Len(self.phones) |->
                       IF self.phones[i] = old_phone_number THEN p.value
                       ELSE self.phones[i]]],
              Return(None))

\* Record.edit_phone
edit_phone(self, old_phone_number, new_phone_number) ==
    LET phone_to_edit == find_phone(self, old_phone_number) IN
    IF phone_to_edit # 0
    THEN LET p == Phone(new_phone_number) IN
         IF p.exc # "none" THEN Done(self, p)
         ELSE Done([self EXCEPT !.phones[phone_to_edit] = p.value], Return(None))
    ELSE Done(self, Raise("ValueError", NotFoundErr, old_phone_number))

(***************************************************************************)
(* AddressBook: data is the dict of UserDict, kept in insertion order as a *)
(* sequence of [key, value] items.                                         *)
(***************************************************************************)
Keys(d) == {d[i].key : i \in 1..Len(d)}

IndexOf(d, k) == CHOOSE i \in 1..Len(d) : d[i].key = k

\* d[k] = v: in place for a key the dict has, at the end otherwise
DictSet(d, k, v) ==
    IF k \in Keys(d)
    THEN [d EXCEPT ![IndexOf(d, k)] = [key |-> k, value |-> v]]
    ELSE Append(d, [key |-> k, value |-> v])

\* add_record keeping what the record under the same name held
add_record_merge(d, record) ==
    IF record.name \in Keys(d)
    THEN LET prior == d[IndexOf(d, record.name)].value
         IN  DictSet(d, record.name,
                     [record EXCEPT !.phones = prior.phones \o record.phones])
    ELSE DictSet(d, record.name, record)

\* AddressBook.add_record
add_record(d, record) == DictSet(d, record.name, record)

\* AddressBook.find: index of the item, 0 for None
find(d, name) == IF name \in Keys(d) THEN IndexOf(d, name) ELSE 0

\* AddressBook.delete
delete(d, name) ==
    IF name \in Keys(d) THEN RemoveAt(d, IndexOf(d, name)) ELSE d

DefaultDays == 7

\* the shift to Monday that leaves a Sunday where it is
congratulation_saturday_only(birthday_this_year) ==
    IF weekday(birthday_this_year) = 5
    THEN AddDays(birthday_this_year, 7 - weekday(birthday_this_year))
    ELSE birthday_this_year

\* congratulation_date: the occurrence, moved to the next Monday from a
\* Saturday or Sunday
congratulation(birthday_this_year) ==
    IF weekday(birthday_this_year) >= 5
    THEN AddDays(birthday_this_year, 7 - weekday(birthday_this_year))
    ELSE birthday_this_year

\* the body of the loop of get_upcoming_birthdays for the items from i on;
\* acc is upcoming_birthdays so far
RECURSIVE upcoming_from(_, _, _, _, _)
upcoming_from(d, i, today, days, acc) ==
    IF i > Len(d) THEN Return(acc)
    ELSE LET record == d[i].value IN
         IF record.birthday = NoBirthday
         THEN upcoming_from(d, i + 1, today, days, acc)
         ELSE LET bday == record.birthday
                  r == replace_year(bday, today.year)
              IN  IF r.exc # "none" THEN r
                  ELSE LET birthday_this_year == r.value
                           delta_days == DaysBetween(birthday_this_year, today)
                       IN  IF 0 <= delta_days /\ delta_days <= days
                           THEN upcoming_from(d, i + 1, today, days,
                                    Append(acc,
                                        [name |-> record.name,
                                         congratulation_date |->
                                             strftime(congratulation(
                                                 birthday_this_year))]))
                           ELSE upcoming_from(d, i + 1, today, days, acc)

\* AddressBook.get_upcoming_birthdays, today being datetime.today().date()
get_upcoming_birthdays(d, today, days) == upcoming_from(d, 1, today, days, <<>>)

(***************************************************************************)
(* Inputs.                                                                 *)
(***************************************************************************)
John == <<"J", "o", "h", "n">>

Jane == <<"J", "a", "n", "e">>

Names == {John, Jane}

Phone1 == <<"1", "2", "3", "4", "5", "6", "7", "8", "9", "0">>

Phone5 == <<"5", "5", "5", "5", "5", "5", "5", "5", "5", "5">>

\* ten characters, the last one U+00B2
PhoneSup == <<"1", "2", "3", "4", "5", "6", "7", "8", "9", "sup2">>

PhoneShort == <<"1", "2", "3">>

PhoneTexts == {Phone1, Phone5, PhoneSup, PhoneShort}

\* a text of length len of the character base, with ch at position pos
TextOf(len, base, pos, ch) == [i \in 1..len |-> IF i = pos THEN ch ELSE base]

OddChars == {"7", "a", "sup2", "ar3", " ", "-", "+", "."}

PhoneInputs ==
    {TextOf(len, "1", pos, ch) : len \in 0..MaxTextLen, pos \in 0..MaxTextLen,
                                 ch \in OddChars}

Date1 == <<"1", "5", ".", "0", "6", ".", "1", "9", "9", "0">>

Date2 == <<"2", "9", ".", "0", "2", ".", "2", "0", "0", "0">>

\* 31 April
DateBad == <<"3", "1", ".", "0", "4", ".", "1", "9", "9", "0">>

DateTexts == {Date1, Date2, DateBad}

RECURSIVE TotalPhones(_)
TotalPhones(d) ==
    IF Len(d) = 0 THEN 0 ELSE Len(d[1].value.phones) + TotalPhones(Tail(d))

\* the record object held at item i becomes rec
SetRecord(d, i, rec) == [d EXCEPT ![i].value = rec]

(***************************************************************************)
(* The Phone constructor on its own.                                       *)
(***************************************************************************)
InitPhone ==
    /\ data = <<>>
    /\ pc = "running"
    /\ \E t \in PhoneInputs : call = [op |-> "input", args |-> <<t>>]
    /\ result = Return(None)

Construct ==
    /\ call.op = "input"
    /\ call' = [op |-> "Phone", args |-> call.args]
    /\ result' = Phone(call.args[1])
    /\ UNCHANGED <<data, pc>>

NextPhone == Construct

SpecPhone == InitPhone /\ [][NextPhone]_vars

(***************************************************************************)
(* The directory driven through the methods of AddressBook and Record.     *)
(***************************************************************************)
Init ==
    /\ data = <<>>
    /\ pc = "running"
    /\ call = [op |-> "init", name |-> <<>>, args |-> <<>>]
    /\ result = Return(None)

\* the records a caller builds before handing them to add_record
Built(name) ==
    {Record(name), add_phone(Record(name), Phone5).self,
     add_birthday(Record(name), Date1).self}

AddRecord(name, record) ==
    /\ data' = add_record(data, record)
    /\ TotalPhones(data') <= MaxPhones
    /\ call' = [op |-> "add_record", name |-> name, args |-> <<>>,
                 record |-> record]
    /\ result' = Return(None)
    /\ UNCHANGED pc

Find(name) ==
    /\ call' = [op |-> "find", name |-> name, args |-> <<>>]
    /\ result' = Return(find(data, name))
    /\ UNCHANGED <<data, pc>>

Delete(name) ==
    /\ data' = delete(data, name)
    /\ call' = [op |-> "delete", name |-> name, args |-> <<>>]
    /\ result' = Return(None)
    /\ UNCHANGED pc

\* a method of the record found under name
Method(op, name, args, done) ==
    /\ data' = SetRecord(data, find(data, name), done.self)
    /\ TotalPhones(data') <= MaxPhones
    /\ call' = [op |-> op, name |-> name, args |-> args]
    /\ result' = done.out
    /\ UNCHANGED pc

AddPhone(name, text) ==
    /\ find(data, name) # 0
    /\ Method("add_phone", name, <<text>>,
              add_phone(data[find(data, name)].value, text))

RemovePhone(name, text) ==
    /\ find(data, name) # 0
    /\ Method("remove_phone", name, <<text>>,
              remove_phone(data[find(data, name)].value, text))

EditPhone(name, old, new) ==
    /\ find(data, name) # 0
    /\ Method("edit_phone", name, <<old, new>>,
              edit_phone(data[find(data, name)].value, old, new))

AddBirthday(name, text) ==
    /\ find(data, name) # 0
    /\ Method("add_birthday", name, <<text>>,
              add_birthday(data[find(data, name)].value, text))

Next ==
    \/ \E name \in Names : \E record \in Built(name) : AddRecord(name, record)
    \/ \E name \in Names : Find(name)
    \/ \E name \in Names : Delete(name)
    \/ \E name \in Names, text \in PhoneTexts : AddPhone(name, text)
    \/ \E name \in Names, text \in PhoneTexts : RemovePhone(name, text)
    \/ \E name \in Names, old \in PhoneTexts, new \in PhoneTexts :
           EditPhone(name, old, new)
    \/ \E name \in Names, text \in {Date1, DateBad} : AddBirthday(name, text)

Spec == Init /\ [][Next]_vars

(***************************************************************************)
(* What the specification calls valid.                                     *)
(***************************************************************************)
\* a phone text: exactly ten characters, each one of 0-9
TenDigits(text) ==
    Len(text) = PhoneLen /\ \A i \in 1..Len(text) : text[i] \in AsciiDigits

\* a date text: DD.MM.YYYY naming a day of the calendar
DayMonthYear(text) ==
    /\ Len(text) = 10
    /\ text[3] = "." /\ text[6] = "."
    /\ \A i \in {1, 2, 4, 5, 7, 8, 9, 10} : text[i] \in AsciiDigits
    /\ LET d == 10 * DigitVal(text[1]) + DigitVal(text[2])
           m == 10 * DigitVal(text[4]) + DigitVal(text[5])
           y == 1000 * DigitVal(text[7]) + 100 * DigitVal(text[8])
                    + 10 * DigitVal(text[9]) + DigitVal(text[10])
       IN  /\ y >= 1
           /\ m \in 1..12
           /\ d >= 1
           /\ d <= (CASE m \in {1, 3, 5, 7, 8, 10, 12} -> 31
                      [] m \in {4, 6, 9, 11} -> 30
                      [] OTHER -> IF y % 4 = 0 /\ (y % 100 # 0 \/ y % 400 = 0)
                                  THEN 29 ELSE 28)

Elems(s) == {s[i] : i \in 1..Len(s)}

\* the record stored under a name the directory has
RecordOf(d, name) == (CHOOSE i \in 1..Len(d) : d[i].key = name)

PhonesOf(d, name) == d[RecordOf(d, name)].value.phones

(***************************************************************************)
(* C1: add_phone with an invalid phone text, remove_phone and edit_phone   *)
(* with an old phone the record does not hold, edit_phone with an invalid  *)
(* new phone text and add_birthday with an invalid date text all fail and  *)
(* leave the entries, every phone sequence and every birthday as they were.*)
(***************************************************************************)
C1_Case ==
    \/ call'.op = "add_phone" /\ ~TenDigits(call'.args[1])
    \/ /\ call'.op \in {"remove_phone", "edit_phone"}
       /\ call'.args[1] \notin Elems(PhonesOf(data, call'.name))
    \/ /\ call'.op = "edit_phone"
       /\ call'.args[1] \in Elems(PhonesOf(data, call'.name))
       /\ ~TenDigits(call'.args[2])
    \/ call'.op = "add_birthday" /\ ~DayMonthYear(call'.args[1])

C1_FailedCallChangesNothing ==
    [][C1_Case => (result'.exc # "none" /\ data' = data)]_vars

\* the same for every call that does fail, whatever its arguments
C1_RaisedCallChangesNothing ==
    [][(call'.op \in {"add_phone", "remove_phone", "edit_phone", "add_birthday"}
            /\ result'.exc # "none") => data' = data]_vars

(***************************************************************************)
(* C7: the directory holds at most one record per name, each under the key *)
(* that is its name; add_record under an existing name puts the new record *)
(* in place of the prior one, nothing of the prior one merged in, and      *)
(* leaves every other entry as it was.                                     *)
(***************************************************************************)
OneRecordPerName(d) ==
    \A i, j \in 1..Len(d) :
        /\ d[i].key = d[j].key => i = j
        /\ d[i].value.name = d[i].key

Entries(d) == {d[i] : i \in 1..Len(d)}

C7_Replaced ==
    call'.op = "add_record" =>
        /\ [key |-> call'.name, value |-> call'.record] \in Entries(data')
        /\ \A e \in Entries(data) : e.key # call'.name => e \in Entries(data')
        /\ \A e \in Entries(data') : e.key # call'.name => e \in Entries(data)

C7_OneRecordPerName == [][OneRecordPerName(data') /\ C7_Replaced]_vars

\* add_record has put an empty record where one with a phone and a birthday was
C7_Witness ==
    /\ call.op = "add_record"
    /\ call.name = John
    /\ call.record = Record(John)
    /\ Len(data) = 2
    /\ data[1] = [key |-> John, value |-> Record(John)]
    /\ data[2].key = Jane /\ data[2].value.phones # <<>>

(***************************************************************************)
(* C8: edit_phone(old, new) on a record holding old, with a valid new,     *)
(* puts new where the first phone equal to old was and changes nothing     *)
(* else: not the length, not any other position, not the name or birthday. *)
(***************************************************************************)
FirstIndex(s, x) ==
    CHOOSE i \in 1..Len(s) : s[i] = x /\ \A j \in 1..Len(s) : s[j] = x => i <= j

C8_Edited ==
    (/\ call'.op = "edit_phone"
     /\ call'.args[1] \in Elems(PhonesOf(data, call'.name))
     /\ TenDigits(call'.args[2]))
    => LET i == RecordOf(data, call'.name)
           before == data[i].value
           after == data'[i].value
           k == FirstIndex(before.phones, call'.args[1])
       IN  /\ result'.exc = "none"
           /\ Len(data') = Len(data)
           /\ \A j \in 1..Len(data) : j # i => data'[j] = data[j]
           /\ data'[i].key = data[i].key
           /\ after.name = before.name
           /\ after.birthday = before.birthday
           /\ Len(after.phones) = Len(before.phones)
           /\ after.phones[k] = call'.args[2]
           /\ \A j \in 1..Len(before.phones) :
                  j # k => after.phones[j] = before.phones[j]

C8_EditInPlace == [][C8_Edited]_vars

\* of two equal phones the first has been rewritten and the second kept
C8_Witness ==
    /\ call.op = "edit_phone"
    /\ call.args = <<Phone1, Phone5>>
    /\ result.exc = "none"
    /\ PhonesOf(data, call.name) = <<Phone5, Phone1>>

(***************************************************************************)
(* The upcoming-birthday query over directories of records with birthdays. *)
(***************************************************************************)
DateJan1 == <<"0", "1", ".", "0", "1", ".", "1", "9", "9", "0">>

DateDec31 == <<"3", "1", ".", "1", "2", ".", "1", "9", "8", "5">>

BirthdayTexts == {Date1, Date2, DateJan1, DateDec31}

TodayYears == 2027..(2026 + NumYears)

Todays ==
    {dt \in [year : TodayYears, month : 1..12, day : 1..31] :
        ValidDate(dt.year, dt.month, dt.day)}

Windows == {0, 1, DefaultDays}

\* Record(name), with add_birthday(text) for a text other than <<>>
WithBirthday(name, text) ==
    IF text = <<>> THEN Record(name) ELSE add_birthday(Record(name), text).self

InitBirthdays ==
    /\ \E b1, b2 \in BirthdayTexts \cup {<<>>} :
           data = add_record(add_record(<<>>, WithBirthday(John, b1)),
                             WithBirthday(Jane, b2))
    /\ pc = "running"
    /\ \E today \in Todays, days \in Windows :
           call = [op |-> "input", today |-> today, days |-> days]
    /\ result = Return(None)

Upcoming ==
    /\ call.op = "input"
    /\ call' = [call EXCEPT !.op = "get_upcoming_birthdays"]
    /\ result' = get_upcoming_birthdays(data, call.today, call.days)
    /\ UNCHANGED <<data, pc>>

NextBirthdays == Upcoming

SpecBirthdays == InitBirthdays /\ [][NextBirthdays]_vars

\* the day of the year of month m, day d in year y
DayOfYear(y, m, d) ==
    LET leap == IF y % 4 = 0 /\ (y % 100 # 0 \/ y % 400 = 0) THEN 1 ELSE 0
        before == <<0, 31, 59, 90, 120, 151, 181, 212, 243, 273, 304, 334>>
    IN  before[m] + d + (IF m > 2 THEN leap ELSE 0)

\* the month and day exist in year y
InYear(y, m, d) ==
    d <= (CASE m \in {1, 3, 5, 7, 8, 10, 12} -> 31
            [] m \in {4, 6, 9, 11} -> 30
            [] OTHER -> IF y % 4 = 0 /\ (y % 100 # 0 \/ y % 400 = 0)
                        THEN 29 ELSE 28)

\* deltaDays: from today to the birthday's month and day in today's year
DeltaDays(b, today) ==
    DayOfYear(today.year, b.month, b.day)
        - DayOfYear(today.year, today.month, today.day)

Included(name) ==
    /\ result.exc = "none"
    /\ \E k \in 1..Len(result.value) : result.value[k].name = name

(***************************************************************************)
(* C5: get_upcoming_birthdays(days) includes a record exactly when it has  *)
(* a birthday and 0 <= deltaDays <= days; a record without a birthday is   *)
(* never included, nor a birthday in January when today is in late         *)
(* December.                                                               *)
(***************************************************************************)
C5_IncludedExactlyInWindow ==
    call.op = "get_upcoming_birthdays" =>
        \A i \in 1..Len(data) :
            LET r == data[i].value IN
            /\ r.birthday = NoBirthday => ~Included(r.name)
            /\ (r.birthday # NoBirthday
                    /\ InYear(call.today.year, r.birthday.month, r.birthday.day))
               => (Included(r.name)
                      <=> (0 <= DeltaDays(r.birthday, call.today)
                             /\ DeltaDays(r.birthday, call.today) <= call.days))
            /\ (r.birthday # NoBirthday /\ r.birthday.month = 1
                    /\ call.today.month = 12 /\ call.today.day >= 25)
               => ~Included(r.name)

\* the same of the calls that return
C5_ReturnedExactlyInWindow ==
    (call.op = "get_upcoming_birthdays" /\ result.exc = "none")
        => C5_IncludedExactlyInWindow

(***************************************************************************)
(* C6: the congratulation date of an included record is this year's        *)
(* occurrence of the birthday, plus 2 days on a Saturday, plus 1 day on a  *)
(* Sunday, unchanged from Monday to Friday; it is never a Saturday or a    *)
(* Sunday and never before the occurrence.                                 *)
(***************************************************************************)
\* 1 January 2024 was a Monday
DayOfWeek(dt) ==
    (toordinal(dt) - toordinal([year |-> 2024, month |-> 1, day |-> 1])) % 7

C6_CongratulationDate ==
    (call.op = "get_upcoming_birthdays" /\ result.exc = "none") =>
        \A k \in 1..Len(result.value) :
            LET b == data[RecordOf(data, result.value[k].name)].value.birthday
                occurrence == [year |-> call.today.year, month |-> b.month,
                               day |-> b.day]
                shift == CASE DayOfWeek(occurrence) = 5 -> 2
                           [] DayOfWeek(occurrence) = 6 -> 1
                           [] OTHER -> 0
                shown == strptime(result.value[k].congratulation_date)
            IN  /\ shown.exc = "none"
                /\ shown.value = AddDays(occurrence, shift)
                /\ DayOfWeek(shown.value) \notin {5, 6}
                /\ toordinal(shown.value) >= toordinal(occurrence)

\* a birthday on Sunday 31 December 2028 is congratulated on 1 January 2029
C6_Witness ==
    /\ call.op = "get_upcoming_birthdays"
    /\ result.exc = "none"
    /\ \E k \in 1..Len(result.value) :
           result.value[k] =
               [name |-> John,
                congratulation_date |->
                    <<"0", "1", ".", "0", "1", ".", "2", "0", "2", "9">>]

(***************************************************************************)
(* The command loop: the handlers, input_error around them, parse_input    *)
(* and main.  A handler leaves the directory it has reached and the way it *)
(* ended; a text it returns is [text, arg], arg filling the {} of text.    *)
(***************************************************************************)
Text(t, a) == [text |-> t, arg |-> a]

Left(d, out) == [data |-> d, out |-> out]

UnpackErr == "not enough values to unpack (expected at least {}, got {})"

\* name, ..., *_ = args with n names before the star
Unpack(args, n) ==
    IF Len(args) < n
    THEN Raise("ValueError", UnpackErr, <<n, Len(args)>>)
    ELSE Return(args)

\* add_contact making a new record of every call
add_contact_replace(args, book) ==
    IF Unpack(args, 2).exc # "none" THEN Left(book, Unpack(args, 2))
    ELSE LET book1 == add_record(book, Record(args[1]))
             i == find(book1, args[1])
             done == add_phone(book1[i].value, args[2])
         IN  IF done.out.exc # "none"
             THEN Left(SetRecord(book1, i, done.self), done.out)
             ELSE Left(SetRecord(book1, i, done.self),
                       Return(Text("Contact added.", <<>>)))

\* add_contact, inside the wrapper
add_contact(args, book) ==
    IF Unpack(args, 2).exc # "none" THEN Left(book, Unpack(args, 2))
    ELSE LET name == args[1]
             phone == args[2]
             record == find(book, name)
             book1 == IF record = 0 THEN add_record(book, Record(name)) ELSE book
             message == IF record = 0 THEN "Contact added." ELSE "Contact updated."
             i == find(book1, name)
         IN  IF phone # <<>>
             THEN LET done == add_phone(book1[i].value, phone) IN
                  IF done.out.exc # "none"
                  THEN Left(SetRecord(book1, i, done.self), done.out)
                  ELSE Left(SetRecord(book1, i, done.self),
                            Return(Text(message, <<>>)))
             ELSE Left(book1, Return(Text(message, <<>>)))

\* change_contact, inside the wrapper
change_contact(args, book) ==
    IF Unpack(args, 3).exc # "none" THEN Left(book, Unpack(args, 3))
    ELSE LET record == find(book, args[1]) IN
         IF record # 0
         THEN LET done == edit_phone(book[record].value, args[2], args[3]) IN
              IF done.out.exc # "none"
              THEN Left(SetRecord(book, record, done.self), done.out)
              ELSE Left(SetRecord(book, record, done.self),
                        Return(Text("Contact updated.", <<>>)))
         ELSE Left(book, Raise("KeyError", "", <<>>))

\* show_phone, inside the wrapper
show_phone(args, book) ==
    IF Unpack(args, 1).exc # "none" THEN Left(book, Unpack(args, 1))
    ELSE LET record == find(book, args[1]) IN
         IF record # 0
         THEN Left(book, Return(Text("{phones}", book[record].value.phones)))
         ELSE Left(book, Raise("KeyError", "", <<>>))

\* Record.__str__
describe(self) ==
    [name |-> self.name, phones |-> self.phones,
     birthday_info |-> IF self.birthday # NoBirthday
                       THEN strftime(self.birthday) ELSE <<>>]

\* show_all
show_all(book) ==
    IF Len(book) = 0
    THEN Left(book, Return(Text("No contacts found.", <<>>)))
    ELSE Left(book, Return(Text("{records}",
                  [i \in 1..Len(book) |-> describe(book[i].value)])))

\* the handler add_birthday, inside the wrapper
add_birthday_command(args, book) ==
    IF Unpack(args, 2).exc # "none" THEN Left(book, Unpack(args, 2))
    ELSE LET record == find(book, args[1]) IN
         IF record # 0
         THEN LET done == add_birthday(book[record].value, args[2]) IN
              IF done.out.exc # "none"
              THEN Left(SetRecord(book, record, done.self), done.out)
              ELSE Left(SetRecord(book, record, done.self),
                        Return(Text("Birthday added.", <<>>)))
         ELSE Left(book, Raise("KeyError", "", <<>>))

\* show_birthday, inside the wrapper
show_birthday(args, book) ==
    IF Unpack(args, 1).exc # "none" THEN Left(book, Unpack(args, 1))
    ELSE LET record == find(book, args[1]) IN
         IF record # 0 /\ book[record].value.birthday # NoBirthday
         THEN Left(book, Return(Text("{date}",
                       strftime(book[record].value.birthday))))
         ELSE IF record # 0
         THEN Left(book, Return(Text("Birthday not set for this contact.", <<>>)))
         ELSE Left(book, Raise("KeyError", "", <<>>))

\* birthdays
birthdays(book, today) ==
    LET upcoming == get_upcoming_birthdays(book, today, DefaultDays) IN
    IF upcoming.exc # "none" THEN Left(book, upcoming)
    ELSE IF upcoming.value = <<>>
    THEN Left(book, Return(Text("No upcoming birthdays in the next week.", <<>>)))
    ELSE Left(book, Return(Text("Upcoming birthdays:{}", upcoming.value)))

\* input_error: what inner makes of the way func ended
input_error(left) ==
    IF left.out.exc = "ValueError" THEN Left(left.data, Return(left.out.msg))
    ELSE IF left.out.exc = "KeyError"
    THEN Left(left.data, Return(Text("Contact not found.", <<>>)))
    ELSE IF left.out.exc = "IndexError"
    THEN Left(left.data, Return(Text("Give me name and phone please.", <<>>)))
    ELSE left

\* str.lower() of the command words of the model
lower(word) ==
    CASE word = "ADD" -> "add" [] word = "Exit" -> "exit" [] OTHER -> word

\* parse_input of a line that whitespace splits into the given words
parse_input(user_input) ==
    IF Len(user_input) < 1
    THEN Raise("ValueError", UnpackErr, <<1, 0>>)
    ELSE Return(<<lower(user_input[1])>> \o Tail(user_input))

\* the keys of command_map
Commands ==
    {"hello", "add", "change", "phone", "all", "add-birthday", "show-birthday",
     "birthdays"}

\* the line parses and its first word, in lower case, is the command
Dispatch(user_input, command) ==
    /\ parse_input(user_input).exc = "none"
    /\ parse_input(user_input).value[1] = command

\* args of the line
Args(user_input) == Tail(user_input)

\* the call command_map[command](args, book) of main: what the handler left is shown,
\* or its exception ends the process
Turn(command, args, today, left) ==
    /\ call' = [op |-> command, args |-> args, today |-> today]
    /\ data' = left.data
    /\ result' = left.out
    /\ pc' = IF left.out.exc = "none" THEN "running" ELSE "crashed"

InitCli ==
    /\ data = <<>>
    /\ pc = "running"
    /\ call = [op |-> "init", args |-> <<>>, today |-> NoBirthday]
    /\ result = Return(Text("Welcome to the assistant bot!", <<>>))

CliPhones == {Phone1, PhoneSup, PhoneShort}

CliTodays ==
    {[year |-> 2027, month |-> 2, day |-> 25],
     [year |-> 2028, month |-> 2, day |-> 25],
     [year |-> 2027, month |-> 6, day |-> 10]}

Day0 == [year |-> 2027, month |-> 6, day |-> 10]

Extra == <<"x">>

AddArgs ==
    {<<>>, <<John, Phone1, Extra>>} \cup {<<n>> : n \in Names}
        \cup {<<n, p>> : n \in Names, p \in CliPhones}

ChangeArgs ==
    {<<>>, <<John>>, <<John, Phone1>>, <<John, Phone1, PhoneSup, Extra>>}
        \cup {<<n, o, p>> : n \in Names, o \in CliPhones, p \in CliPhones}

NameArgs == {<<>>, <<John, Extra>>} \cup {<<n>> : n \in Names}

BirthdayArgs ==
    {<<>>, <<John, Date1, Extra>>} \cup {<<n>> : n \in Names}
        \cup {<<n, t>> : n \in Names, t \in DateTexts}

\* one turn of the loop of main for each kind of line
EmptyLine ==
    /\ pc = "running"
    /\ parse_input(<<>>).exc # "none"
    /\ Turn("", <<>>, Day0, Left(data, parse_input(<<>>)))

Hello ==
    /\ pc = "running"
    /\ Dispatch(<<"hello">>, "hello")
    /\ Turn("hello", <<>>, Day0,
             Left(data, Return(Text("How can I help you?", <<>>))))

ShowAll ==
    /\ pc = "running"
    /\ Dispatch(<<"all">>, "all")
    /\ Turn("all", <<>>, Day0, show_all(data))

Unknown(word) ==
    /\ pc = "running"
    /\ Dispatch(<<word>>, lower(word))
    /\ lower(word) \notin Commands \cup {"close", "exit"}
    /\ Turn(lower(word), <<>>, Day0,
             Left(data, Return(Text("Invalid command.", <<>>))))

Close(word) ==
    /\ pc = "running"
    /\ Dispatch(<<word>>, lower(word))
    /\ lower(word) \in {"close", "exit"}
    /\ call' = [op |-> lower(word), args |-> <<>>, today |-> Day0]
    /\ result' = Return(Text("Good bye!", <<>>))
    /\ pc' = "closed"
    /\ UNCHANGED data

Add(user_input) ==
    /\ pc = "running"
    /\ Dispatch(user_input, "add")
    /\ Turn("add", Args(user_input), Day0,
             input_error(add_contact(Args(user_input), data)))
    /\ TotalPhones(data') <= MaxPhones

Change(user_input) ==
    /\ pc = "running"
    /\ Dispatch(user_input, "change")
    /\ Turn("change", Args(user_input), Day0,
             input_error(change_contact(Args(user_input), data)))

ShowPhone(user_input) ==
    /\ pc = "running"
    /\ Dispatch(user_input, "phone")
    /\ Turn("phone", Args(user_input), Day0,
             input_error(show_phone(Args(user_input), data)))

AddBirthdayCommand(user_input) ==
    /\ pc = "running"
    /\ Dispatch(user_input, "add-birthday")
    /\ Turn("add-birthday", Args(user_input), Day0,
             input_error(add_birthday_command(Args(user_input), data)))

ShowBirthday(user_input) ==
    /\ pc = "running"
    /\ Dispatch(user_input, "show-birthday")
    /\ Turn("show-birthday", Args(user_input), Day0,
             input_error(show_birthday(Args(user_input), data)))

Birthdays(today) ==
    /\ pc = "running"
    /\ Dispatch(<<"birthdays">>, "birthdays")
    /\ Turn("birthdays", <<>>, today, birthdays(data, today))

NextCli ==
    \/ EmptyLine
    \/ Hello
    \/ ShowAll
    \/ \E word \in {"bye", "close", "exit", "Exit"} : Unknown(word)
    \/ \E word \in {"bye", "close", "exit", "Exit"} : Close(word)
    \/ \E args \in AddArgs : Add(<<"add">> \o args)
    \/ Add(<<"ADD", Jane, Phone1>>)
    \/ \E args \in ChangeArgs : Change(<<"change">> \o args)
    \/ \E args \in NameArgs : ShowPhone(<<"phone">> \o args)
    \/ \E args \in BirthdayArgs : AddBirthdayCommand(<<"add-birthday">> \o args)
    \/ \E args \in NameArgs : ShowBirthday(<<"show-birthday">> \o args)
    \/ \E today \in CliTodays : Birthdays(today)

SpecCli == InitCli /\ [][NextCli]_vars

(***************************************************************************)
(* C2: a command of add, change, phone, add-birthday or show-birthday that *)
(* ends in an error message leaves the names of the directory and every    *)
(* record's phones and birthday as they were; add with a new name and an   *)
(* invalid phone leaves no record behind.                                  *)
(***************************************************************************)
Handlers == {"add", "change", "phone", "add-birthday", "show-birthday"}

TooFewText == "Give me name and phone please."

ErrorTexts ==
    {PhoneErr, DateErr, NotFoundErr, "Contact not found.", TooFewText, UnpackErr}

C2_FailedCommandChangesNothing ==
    [][(/\ call'.op \in Handlers
        /\ result'.exc = "none"
        /\ result'.value.text \in ErrorTexts) => data' = data]_vars

(***************************************************************************)
(* C3: a command given fewer arguments than it needs (add fewer than 2,    *)
(* change fewer than 3, phone, add-birthday and show-birthday none) prints *)
(* exactly "Give me name and phone please." and leaves the directory as it *)
(* was.                                                                    *)
(***************************************************************************)
TooFew(c) ==
    \/ c.op = "add" /\ Len(c.args) < 2
    \/ c.op = "change" /\ Len(c.args) < 3
    \/ c.op \in {"phone", "add-birthday", "show-birthday"} /\ Len(c.args) = 0

C3_TooFewArguments ==
    [][TooFew(call') => (/\ result'.exc = "none"
                         /\ result'.value = Text(TooFewText, <<>>)
                         /\ data' = data)]_vars

(***************************************************************************)
(* C4: no failure ends the process: every line, the empty one, all and     *)
(* birthdays included, prints a text and the loop runs on until close or   *)
(* exit; get_upcoming_birthdays raises for no stored birthday, 29 February *)
(* in a year that is not a leap year included.                             *)
(***************************************************************************)
C4_NoFatalFailure == pc # "crashed"

\* the part of it on birthdays alone
C4_BirthdaysNeverRaises == ~(pc = "crashed" /\ call.op = "birthdays")

(***************************************************************************)
(* C10: no command loses stored data: a name in the directory stays in it, *)
(* the phones of a record never get fewer, a birthday once set gives way   *)
(* only to another valid birthday, and add on a name the directory has     *)
(* appends the phone to the record that is there, its birthday kept.       *)
(***************************************************************************)
C10_Kept ==
    \A i \in 1..Len(data) :
        LET name == data[i].key
            before == data[i].value
        IN  /\ \E j \in 1..Len(data') : data'[j].key = name
            /\ LET after == data'[RecordOf(data', name)].value IN
               /\ Len(after.phones) >= Len(before.phones)
               /\ before.birthday # NoBirthday =>
                      /\ after.birthday # NoBirthday
                      /\ after.birthday.month \in 1..12
                      /\ InYear(after.birthday.year, after.birthday.month,
                                after.birthday.day)
               /\ (call'.op = "add" /\ Len(call'.args) >= 2
                       /\ call'.args[1] = name) =>
                      /\ after.birthday = before.birthday
                      /\ after.phones \in {before.phones,
                                           Append(before.phones, call'.args[2])}
                      /\ TenDigits(call'.args[2]) =>
                             after.phones = Append(before.phones, call'.args[2])

C10_NothingLost == [][C10_Kept]_vars

\* add has put a second phone on a record that has a birthday
C10_Witness ==
    /\ call.op = "add"
    /\ call.args = <<John, Phone1>>
    /\ result = Return(Text("Contact updated.", <<>>))
    /\ \E i \in 1..Len(data) :
           /\ data[i].key = John
           /\ data[i].value.phones = <<Phone1, Phone1>>
           /\ data[i].value.birthday = [year |-> 1990, month |-> 6, day |-> 15]

(***************************************************************************)
(* C9: the Phone constructor succeeds exactly for the texts of ten         *)
(* characters that are all among 0-9, storing the text as it is, and fails *)
(* with the invalid-phone failure for every other text; so every phone a   *)
(* record holds is ten characters among 0-9.                               *)
(***************************************************************************)
C9_TenDigitsExactly ==
    call.op = "Phone" =>
        IF TenDigits(call.args[1])
        THEN result = Return(call.args[1])
        ELSE result = Raise("ValueError", PhoneErr, <<>>)

\* the second half, of the phones the records of the directory hold
C9_StoredPhonesTenDigits ==
    \A i \in 1..Len(data) :
        \A k \in 1..Len(data[i].value.phones) :
            TenDigits(data[i].value.phones[k])

====
